---------------------------- MODULE Spec2Model ----------------------------
(***************************************************************************)
(* Model of the bead-pull measurement stand (chrisdeutsch/SKM):            *)
(*   src/vna.py                 VNA, Marker  (serial SCPI client)          *)
(*   src/motor.py               Motor        (serial stepper client)       *)
(*   src/stoerkoerpermessung.py Stoerkoerpermessung (the measurement run)  *)
(*                                                                         *)
(* Two specifications share the variables and the actions of VNA.read_raw: *)
(*   SpecRaw  a client calls VNA.read_raw() and then VNA.get_center() on a *)
(*            channel whose instrument answers the trace query with any    *)
(*            response of Responses (well-formed, odd-length, truncated,   *)
(*            text, broken header);                                        *)
(*   Spec     the run of stoerkoerpermessung.py: __init__ and measure().   *)
(*                                                                         *)
(* Modelling decisions.                                                    *)
(*  - A serial channel is the sequence of bytes (0..255) the instrument    *)
(*    has sent and the program has not yet read.  The instrument answers a *)
(*    query at the moment the query is written.                            *)
(*  - The VNA port is opened without a timeout (vna.py:14), so a read of n *)
(*    bytes returns only when n bytes are there.  When fewer bytes are     *)
(*    there and no command is outstanding, the read never returns: the     *)
(*    model records that as the position "blocked".                        *)
(*  - An IEEE-754 double is its 8-byte bit pattern, most significant byte  *)
(*    first; '<d' is the byte reversal between that pattern and the wire.  *)
(*  - Text numbers on the wire are unsigned decimal digit strings.         *)
(***************************************************************************)
EXTENDS Integers, Sequences, FiniteSets, TLC

VARIABLES
    pc,           \* position of the caller (client in SpecRaw, run in Spec)
    cfg,          \* the configuration file and the properties of the instruments
    vnaRx,        \* VNA channel: bytes sent by the instrument, not yet read
    motRx,        \* motor channel: bytes sent by the controller, not yet read
    inst,         \* the VNA: average count, points, marker 1
    motor,        \* the motor: commanded target, polls it still answers "moving"
    net,          \* history, per channel: unanswered command, reply still owed
    trace,        \* history: hardware and clock events since the last loop test
    resp,         \* the instrument's response to the last TRAC? CH1DATA
    rawPc,        \* position inside VNA.read_raw
    length,       \* read_raw local: length of the length field
    data_length,  \* read_raw local: declared payload length
    data_pts,     \* read_raw local: data_length // 16
    ret,          \* read_raw local: the list of (re, im) pairs read so far
    rawResult,    \* what read_raw delivered: "pending", "list", "None", "ValueError"
    center,       \* SpecRaw: what get_center() after read_raw delivered
    start,        \* measure local
    stop,         \* measure local
    stepsize,     \* measure local
    pos,          \* measure local
    inf_cnt,      \* measure local
    f_ref,        \* measure local
    freq,         \* measure local
    call,         \* get_freq_at in progress: [for |-> "ref" | "pos", pos |-> its argument]
    outf,         \* the open output file: [name, buffer] (lines printed, not flushed)
    disk,         \* the files on disk: sequence of [name, lines]
    stdout,       \* the positions printed as "Measuring: d = ... mm" in this sweep
    err           \* the exception that ended the run, or "none"

(* What VNA.read_raw does not touch. *)
callerVars == <<pc, cfg, motRx, motor, center, start, stop, stepsize, pos, inf_cnt,
                f_ref, freq, call, outf, disk, stdout, err>>

rawLocals == <<length, data_length, data_pts, ret, rawResult>>

measureVars == <<start, stop, stepsize, pos, inf_cnt, f_ref, freq, call, outf, disk, stdout>>

rawVars == <<resp, rawPc, length, data_length, data_pts, ret, rawResult, center>>

worldVars == <<vnaRx, motRx, inst, motor, net, trace>>

vars == <<pc, cfg, vnaRx, motRx, inst, motor, net, trace, resp, rawPc, length,
          data_length, data_pts, ret, rawResult, center, start, stop, stepsize, pos,
          inf_cnt, f_ref, freq, call, outf, disk, stdout, err>>

---------------------------------------------------------------------------
(* Bytes of the wire format. *)
HASH == 35
LF == 10
CR == 13
SPACE == 32
ZERO == 48
LETTER == 65

(* vna.py:169, 173: 8 bytes per double, 16 per complex sample. *)
DOUBLE_BYTES == 8
PAIR_BYTES == 16

(* Bounds of the model. *)
MaxSamples == 3

---------------------------------------------------------------------------
(* Sequences of bytes. *)
Reverse(s) == [k \in 1..Len(s) |-> s[Len(s) + 1 - k]]

Take(s, n) == SubSeq(s, 1, n)

Drop(s, n) == SubSeq(s, n + 1, Len(s))

RECURSIVE Flatten(_)
Flatten(ss) == IF ss = <<>> THEN <<>> ELSE Head(ss) \o Flatten(Tail(ss))

IsDigit(b) == b >= ZERO /\ b <= ZERO + 9

IsSpace(b) == b \in {LF, CR, SPACE}

(* str.strip() / the whitespace int() and float() skip at both ends. *)
RECURSIVE LStrip(_)
LStrip(s) == IF s # <<>> /\ IsSpace(Head(s)) THEN LStrip(Tail(s)) ELSE s

Strip(s) == Reverse(LStrip(Reverse(LStrip(s))))

RECURSIVE DecValue(_)
DecValue(s) == IF s = <<>> THEN 0 ELSE 10 * DecValue(Take(s, Len(s) - 1)) + (s[Len(s)] - ZERO)

(* int(text) / float(text) on a digit string: NoNumber stands for ValueError. *)
NoNumber == 0 - 1

ParseNumber(s) ==
    LET t == Strip(s)
    IN IF t # <<>> /\ \A k \in 1..Len(t) : IsDigit(t[k]) THEN DecValue(t) ELSE NoNumber

(* The first line of a buffer, terminator included (Serial.readline). *)
HasLine(s) == \E k \in 1..Len(s) : s[k] = LF

LineEnd(s) == CHOOSE k \in 1..Len(s) : s[k] = LF /\ \A j \in 1..(k - 1) : s[j] # LF

---------------------------------------------------------------------------
(* The instrument's side of the block format                               *)
(*   '#' L <L digits: dataLength> <dataLength payload bytes> LF            *)
(* which VNA.read_raw consumes.                                            *)

(* Doubles as bit patterns, most significant byte first: 1.0, and a value  *)
(* whose bytes contain the line terminator and the block marker.           *)
D_ONE == <<63, 240, 0, 0, 0, 0, 0, 0>>
D_LFHASH == <<64, LF, HASH, 0, 0, 0, LF, 49>>
Doubles == {D_ONE, D_LFHASH}

Samples == Doubles \X Doubles

RECURSIVE SeqsUpTo(_, _)
SeqsUpTo(S, n) ==
    IF n = 0 THEN {<<>>}
    ELSE LET shorter == SeqsUpTo(S, n - 1)
         IN shorter \cup {Append(s, x) : s \in {t \in shorter : Len(t) = n - 1}, x \in S}

RECURSIVE Dec(_)
Dec(n) == IF n < 10 THEN <<ZERO + n>> ELSE Append(Dec(n \div 10), ZERO + (n % 10))

(* struct.pack('<d', x): the pattern's bytes, least significant first. *)
pack_le(d) == Reverse(d)

Payload(samples) ==
    Flatten([k \in 1..Len(samples) |-> pack_le(samples[k][1]) \o pack_le(samples[k][2])])

Header(n, pad) ==
    LET digits == [k \in 1..pad |-> ZERO] \o Dec(n)
    IN <<HASH, ZERO + Len(digits)>> \o digits

(* A block of the samples plus `extra` payload bytes, `cut` bytes short at  *)
(* its end (cut = 0: complete, terminator included).                        *)
BlockBytes(samples, extra, pad, cut) ==
    LET all == Header(PAIR_BYTES * Len(samples) + Len(extra), pad)
                 \o Payload(samples) \o extra \o <<LF>>
    IN Take(all, Len(all) - cut)

Response(kind, samples, extra, pad, cut) ==
    [kind |-> kind, samples |-> samples,
     declared |-> PAIR_BYTES * Len(samples) + Len(extra),
     delivered |-> IF cut = 0 THEN PAIR_BYTES * Len(samples) + Len(extra)
                   ELSE PAIR_BYTES * Len(samples) + Len(extra) - (cut - 1),
     bytes |-> BlockBytes(samples, extra, pad, cut)]

TextResponse(bytes) ==
    [kind |-> "text", samples |-> <<>>, declared |-> 0, delivered |-> 0, bytes |-> bytes]

HeaderResponse(bytes) ==
    [kind |-> "badheader", samples |-> <<>>, declared |-> 0, delivered |-> 0, bytes |-> bytes]

WellFormed == {Response("block", s, <<>>, pad, 0) : s \in SeqsUpTo(Samples, MaxSamples), pad \in {0, 1}}

OddLength ==
    {Response("odd", s, e, 0, 0) :
        s \in SeqsUpTo({<<D_ONE, D_LFHASH>>}, 1), e \in {<<LETTER>>, <<LF>>, <<LETTER, LF, LETTER>>}}

Truncated ==
    {Response("short", s, <<>>, 0, cut) :
        s \in {t \in SeqsUpTo({<<D_ONE, D_LFHASH>>}, MaxSamples) : t # <<>>}, cut \in {2, 9, 17}}

TextLines == {TextResponse(b) : b \in {<<LF>>, <<ZERO, LF>>, <<LETTER, LETTER, CR, LF>>}}

BadHeaders ==
    {HeaderResponse(b) :
        b \in {<<HASH, LETTER, LF>>, <<HASH, ZERO, LF>>,
               <<HASH, ZERO + 2, ZERO + 1, LETTER>> \o Payload(<<<<D_ONE, D_ONE>>>>) \o <<LF>>}}

Responses == WellFormed \cup OddLength \cup Truncated \cup TextLines \cup BadHeaders

NoResponse == TextResponse(<<>>)

(* The replies the instrument gives to SENSE:FREQ:CENTER? ("5\n") and SPAN?. *)
CENTER_VALUE == 5
SPAN_VALUE == 3
CenterReply == Dec(CENTER_VALUE) \o <<LF>>

(* The answers to TRAC? CH1DATA explored in the measurement run. *)
RunResponses ==
    {Response("block", <<<<D_ONE, D_LFHASH>>>>, <<>>, 0, 0), TextResponse(<<ZERO, LF>>),
     Response("odd", <<>>, <<LF>>, 0, 0)}

---------------------------------------------------------------------------
(* The world outside the program: both channels, both instruments and the   *)
(* histories, as one record the operations below transform.                 *)
World ==
    [vrx |-> vnaRx, mrx |-> motRx, vna |-> inst, mot |-> motor, net |-> net, tr |-> trace]

SetWorld(w) ==
    /\ vnaRx' = w.vrx
    /\ motRx' = w.mrx
    /\ inst' = w.vna
    /\ motor' = w.mot
    /\ net' = w.net
    /\ trace' = w.tr

Ev(ch, op, what, n) == <<ch, op, what, n>>

IsPrefix(p, s) == Len(p) <= Len(s) /\ Take(s, Len(p)) = p

(* History of one channel.  open: the kind of the last command when no read *)
(* has followed it yet; overlap: a command was written while another one    *)
(* was open; lost: ... while a query was open; owed: the part of the reply  *)
(* to the last command not read yet; stale: a read returned other bytes.    *)
NetIdle == [open |-> "none", overlap |-> FALSE, lost |-> FALSE, stale |-> FALSE, owed |-> <<>>]

GWrite(g, kind, reply) ==
    [open |-> kind,
     overlap |-> g.overlap \/ g.open # "none",
     lost |-> g.lost \/ g.open = "query",
     stale |-> g.stale,
     owed |-> reply]

GRead(g, bytes) ==
    [open |-> "none",
     overlap |-> g.overlap,
     lost |-> g.lost,
     stale |-> g.stale \/ ~IsPrefix(bytes, g.owed),
     owed |-> IF IsPrefix(bytes, g.owed) THEN Drop(g.owed, Len(bytes)) ELSE g.owed]

(* The resonance the VNA sees with the bead where the motor is: one value   *)
(* per motor position, another one while the bead travels.                  *)
BASE_FREQ == 50
TRANSIT_FREQ == 9
REFLECTION == 7

FreqAt(mot) == IF mot.moving > 0 THEN TRANSIT_FREQ ELSE BASE_FREQ + mot.target

Queries ==
    {"SENSE:AVERAGE:COUNT?", "SENS:SWEEP:TIME?", "SENSE:FREQ:CENTER?", "SENSE:FREQ:SPAN?",
     "SENSE:SWEEP:POINTS?", "CALC:MARK1:X?", "CALC:MARK1:Y?", "TRAC? CH1DATA"}

(* What the VNA sends back for a command (answer: its trace block). *)
VnaReply(w, command, answer) ==
    CASE command = "SENSE:AVERAGE:COUNT?" -> Dec(w.vna.avg) \o <<LF>>
      [] command = "SENS:SWEEP:TIME?" -> Dec(cfg.SweepTime) \o <<LF>>
      [] command = "SENSE:FREQ:CENTER?" -> CenterReply
      [] command = "SENSE:FREQ:SPAN?" -> Dec(SPAN_VALUE) \o <<LF>>
      [] command = "SENSE:SWEEP:POINTS?" -> Dec(w.vna.points) \o <<LF>>
      [] command = "CALC:MARK1:X?" -> Dec(w.vna.mark) \o <<LF>>
      [] command = "CALC:MARK1:Y?" -> Dec(REFLECTION) \o <<LF>>
      [] command = "TRAC? CH1DATA" -> answer
      [] OTHER -> <<>>

VnaState(w, command, n) ==
    CASE command = "SENSE:AVERAGE:COUNT" -> [w.vna EXCEPT !.avg = n]
      [] command = "SENSE:SWEEP:POINTS" -> [w.vna EXCEPT !.points = n]
      [] command = "CALC:MARK1:SEARCH" -> [w.vna EXCEPT !.mark = FreqAt(w.mot)]
      [] OTHER -> w.vna

(* serial.write on the VNA channel: the command goes out, the instrument    *)
(* acts on it and answers a query at once.                                  *)
VnaWrite(w, command, n, answer) ==
    [w EXCEPT !.vrx = @ \o VnaReply(w, command, answer),
              !.vna = VnaState(w, command, n),
              !.net.vna = GWrite(@, IF command \in Queries THEN "query" ELSE "set",
                                 VnaReply(w, command, answer)),
              !.tr = Append(@, Ev("vna", "write", command, n))]

(* vna.py:30-32 VNA.cmd and vna.py:249-251 Marker.cmd. *)
cmd(w, command, n) == VnaWrite(w, command, n, <<>>)

(* serial.read(n) / serial.readline() on the VNA channel, when the bytes    *)
(* are there.                                                               *)
VnaRead(w, n) ==
    [w EXCEPT !.vrx = Drop(@, n),
              !.net.vna = GRead(@, Take(w.vrx, n)),
              !.tr = Append(@, Ev("vna", "read", "bytes", n))]

VnaLine(w) == Take(w.vrx, LineEnd(w.vrx))

VnaReadLine(w) ==
    [w EXCEPT !.vrx = Drop(@, LineEnd(w.vrx)),
              !.net.vna = GRead(@, VnaLine(w)),
              !.tr = Append(@, Ev("vna", "read", "line", 0))]

(* A text query: the command, one line, its number (vna.py:41-45, 89-93,    *)
(* 107-111, 131-136).                                                       *)
Asked(w, command) == cmd(w, command, 0)

Answer(w, command) == ParseNumber(VnaLine(Asked(w, command)))

AfterQuery(w, command) == VnaReadLine(Asked(w, command))

---------------------------------------------------------------------------
(* VNA.read_raw, one action per read of the channel.                        *)

TraceAnswers == IF cfg.Answers = "any" THEN Responses ELSE RunResponses

(* struct.unpack('<d', b): the pattern of the 8 wire bytes. *)
unpack_be(b) == b

unpack_le(b) == Reverse(b)

(* vna.py:156-157: select the format, ask for the trace. *)
read_raw_cmd ==
    /\ rawPc = "call"
    /\ \E r \in TraceAnswers :
        /\ resp' = r
        /\ SetWorld(VnaWrite(cmd(World, "FORMAT:DATA REAL,64", 0), "TRAC? CH1DATA", 0, r.bytes))
    /\ rawPc' = "marker"
    /\ UNCHANGED <<rawLocals, callerVars>>

(* vna.py:160-161,176-177: one byte; anything but '#' returns None. *)
read_raw_marker ==
    /\ rawPc = "marker"
    /\ IF vnaRx = <<>>
       THEN /\ rawPc' = "blocked"
            /\ UNCHANGED <<worldVars, rawResult>>
       ELSE IF Head(vnaRx) = HASH
       THEN /\ rawPc' = "lenlen"
            /\ SetWorld(VnaRead(World, 1))
            /\ UNCHANGED rawResult
       ELSE /\ rawPc' = "returned"
            /\ rawResult' = "None"
            /\ SetWorld(VnaRead(World, 1))
    /\ UNCHANGED <<resp, length, data_length, data_pts, ret, callerVars>>

(* vna.py:163: length = int(self.serial.read().decode()) *)
read_raw_lenlen ==
    /\ rawPc = "lenlen"
    /\ IF vnaRx = <<>>
       THEN /\ rawPc' = "blocked"
            /\ UNCHANGED <<worldVars, rawResult, length>>
       ELSE /\ SetWorld(VnaRead(World, 1))
            /\ IF ParseNumber(<<Head(vnaRx)>>) = NoNumber
               THEN /\ rawPc' = "raised"
                    /\ rawResult' = "ValueError"
                    /\ UNCHANGED length
               ELSE /\ rawPc' = "len"
                    /\ length' = ParseNumber(<<Head(vnaRx)>>)
                    /\ UNCHANGED rawResult
    /\ UNCHANGED <<resp, data_length, data_pts, ret, callerVars>>

(* vna.py:169: data_pts = data_length // 16 *)
PointsOf(n) == n \div PAIR_BYTES

(* vna.py:166-171: data_length = int(read(length)); data_pts; ret = list() *)
read_raw_len ==
    /\ rawPc = "len"
    /\ IF Len(vnaRx) < length
       THEN /\ rawPc' = "blocked"
            /\ UNCHANGED <<worldVars, rawResult, data_length, data_pts, ret>>
       ELSE /\ SetWorld(VnaRead(World, length))
            /\ IF ParseNumber(Take(vnaRx, length)) = NoNumber
               THEN /\ rawPc' = "raised"
                    /\ rawResult' = "ValueError"
                    /\ UNCHANGED <<data_length, data_pts, ret>>
               ELSE /\ rawPc' = "pairs"
                    /\ data_length' = ParseNumber(Take(vnaRx, length))
                    /\ data_pts' = PointsOf(ParseNumber(Take(vnaRx, length)))
                    /\ ret' = <<>>
                    /\ UNCHANGED rawResult
    /\ UNCHANGED <<resp, length, callerVars>>

(* vna.py:172-175: one turn of the loop, two reads of 8 bytes. *)
read_raw_pair ==
    /\ rawPc = "pairs"
    /\ Len(ret) < data_pts
    /\ IF Len(vnaRx) < 2 * DOUBLE_BYTES
       THEN /\ rawPc' = "blocked"
            /\ SetWorld(IF Len(vnaRx) < DOUBLE_BYTES THEN World ELSE VnaRead(World, DOUBLE_BYTES))
            /\ UNCHANGED ret
       ELSE /\ ret' = Append(ret, <<unpack_le(Take(vnaRx, DOUBLE_BYTES)),
                                    unpack_le(SubSeq(vnaRx, DOUBLE_BYTES + 1, 2 * DOUBLE_BYTES))>>)
            /\ SetWorld(VnaRead(VnaRead(World, DOUBLE_BYTES), DOUBLE_BYTES))
            /\ UNCHANGED rawPc
    /\ UNCHANGED <<resp, length, data_length, data_pts, rawResult, callerVars>>

(* vna.py:179-180: self.serial.readline(); return ret *)
read_raw_term ==
    /\ rawPc = "pairs"
    /\ Len(ret) >= data_pts
    /\ IF HasLine(vnaRx)
       THEN /\ SetWorld(VnaReadLine(World))
            /\ rawPc' = "returned"
            /\ rawResult' = "list"
       ELSE /\ rawPc' = "blocked"
            /\ UNCHANGED <<worldVars, rawResult>>
    /\ UNCHANGED <<resp, length, data_length, data_pts, ret, callerVars>>

read_raw == read_raw_cmd \/ read_raw_marker \/ read_raw_lenlen \/ read_raw_len
            \/ read_raw_pair \/ read_raw_term

---------------------------------------------------------------------------
(* The client of SpecRaw:  raw = vna.read_raw(); c = vna.get_center()      *)

NotRead == 0 - 2

NoRat == <<0, 1>>

client_call ==
    /\ pc = "client"
    /\ pc' = "in_read_raw"
    /\ rawPc' = "call"
    /\ UNCHANGED <<cfg, worldVars, resp, rawLocals, center, measureVars, err>>

(* vna.py:41-45: the query, one line, float(). *)
client_get_center ==
    /\ pc = "in_read_raw"
    /\ rawPc = "returned"
    /\ pc' = "client_done"
    /\ center' = Answer(World, "SENSE:FREQ:CENTER?")
    /\ SetWorld(AfterQuery(World, "SENSE:FREQ:CENTER?"))
    /\ UNCHANGED <<cfg, resp, rawPc, rawLocals, measureVars, err>>

RawConfig ==
    [Answers |-> "any", SweepTime |-> 1, Start |-> 0, Stop |-> 0, StepSize |-> <<>>,
     Steps |-> <<>>, Infinite |-> FALSE, Checkmode |-> FALSE, RcMode |-> FALSE,
     Reference |-> 0, Average |-> 1, Scaling |-> 1, Delay |-> 0, Points |-> 0, Power |-> 0]

InitCommon ==
    /\ vnaRx = <<>>
    /\ motRx = <<>>
    /\ inst = [avg |-> 1, points |-> 0, mark |-> 0]
    /\ motor = [target |-> 0, moving |-> 0]
    /\ net = [vna |-> NetIdle, motor |-> NetIdle]
    /\ trace = <<>>
    /\ resp = NoResponse
    /\ rawPc = "idle"
    /\ length = 0
    /\ data_length = 0
    /\ data_pts = 0
    /\ ret = <<>>
    /\ rawResult = "pending"
    /\ center = NotRead
    /\ start = NoRat
    /\ stop = NoRat
    /\ stepsize = NoRat
    /\ pos = NoRat
    /\ inf_cnt = 0
    /\ f_ref = 0
    /\ freq = 0
    /\ call = [for |-> "none", pos |-> NoRat]
    /\ outf = [name |-> <<>>, buffer |-> <<>>]
    /\ disk = <<>>
    /\ stdout = <<>>
    /\ err = "none"

InitRaw ==
    /\ pc = "client"
    /\ cfg = RawConfig
    /\ InitCommon

NextRaw == client_call \/ read_raw \/ client_get_center

SpecRaw == InitRaw /\ [][NextRaw]_vars

---------------------------------------------------------------------------
(* Numbers of the measurement.  A position is an exact fraction <<n, d>>,   *)
(* d > 0, in lowest terms, counted in units of 0.5E-6 (so that the 1E-6 of  *)
(* the loop test is 2); floating-point rounding is not modelled.            *)
EPSILON == 2

Abs(x) == IF x < 0 THEN 0 - x ELSE x

RECURSIVE Gcd(_, _)
Gcd(a, b) == IF b = 0 THEN a ELSE Gcd(b, a % b)

Rat(n, d) ==
    LET g == Gcd(Abs(n), Abs(d))
        sign == IF d < 0 THEN 0 - 1 ELSE 1
    IN <<(sign * n) \div g, (sign * d) \div g>>

RInt(n) == <<n, 1>>

RAdd(a, b) == Rat(a[1] * b[2] + b[1] * a[2], a[2] * b[2])

RSub(a, b) == Rat(a[1] * b[2] - b[1] * a[2], a[2] * b[2])

RGt(a, b) == a[1] * b[2] > b[1] * a[2]

RDivInt(a, n) == Rat(a[1], a[2] * n)

(* int(x): towards zero. *)
Trunc(a) == IF a[1] >= 0 THEN a[1] \div a[2] ELSE 0 - ((0 - a[1]) \div a[2])

---------------------------------------------------------------------------
(* src/motor.py.  The controller answers every command with one line and a  *)
(* PR query with an empty line and the value (motor.py:40); it answers      *)
(* within the read timeout of its port.                                     *)
MotReply(w, command) ==
    IF command = "PR MV"
    THEN <<CR, LF>> \o Dec(IF w.mot.moving > 0 THEN 1 ELSE 0) \o <<LF>>
    ELSE <<CR, LF>>

(* MA n: the motor starts towards n and answers k more polls with "moving". *)
MotState(w, command, n, k) ==
    CASE command = "MA" -> [target |-> n, moving |-> k]
      [] command = "PR MV" -> [w.mot EXCEPT !.moving = IF @ > 0 THEN @ - 1 ELSE 0]
      [] OTHER -> w.mot

MotWrite(w, command, n, k) ==
    [w EXCEPT !.mrx = @ \o MotReply(w, command),
              !.mot = MotState(w, command, n, k),
              !.net.motor = GWrite(@, "query", MotReply(w, command)),
              !.tr = Append(@, Ev("motor", "write", command, n))]

MotLine(w) == Take(w.mrx, LineEnd(w.mrx))

MotReadLine(w) ==
    [w EXCEPT !.mrx = Drop(@, LineEnd(w.mrx)),
              !.net.motor = GRead(@, MotLine(w)),
              !.tr = Append(@, Ev("motor", "read", "line", 0))]

(* The lines of the motor configuration file (stoerkoerper.conf). *)
MotorConfig == <<"VM=5000", "A=1000">>

(* motor.py:25-33 *)
RECURSIVE load_motor_config(_, _)
load_motor_config(w, conf) ==
    IF conf = <<>> THEN w
    ELSE load_motor_config(MotReadLine(MotWrite(w, Head(conf), 0, 0)), Tail(conf))

(* motor.py:69-75, with P = int(1.0 * pos / self.scaling) *)
MicroSteps(p) == Trunc(RDivInt(p, cfg.Scaling))

move_to(w, p, k) == MotReadLine(MotWrite(w, "MA", MicroSteps(p), k))

(* motor.py:35-43, 107-110: is_moving() is bool(int(get("MV"))) *)
get_mv_asked(w) == MotReadLine(MotWrite(w, "PR MV", 0, 0))

get_mv_value(w) == ParseNumber(MotLine(get_mv_asked(w)))

get_mv_done(w) == MotReadLine(get_mv_asked(w))

---------------------------------------------------------------------------
(* src/vna.py: the methods the run uses.                                    *)
Sleep(w, what, d) == [w EXCEPT !.tr = Append(@, Ev("time", "sleep", what, d))]

(* vna.py:99-105 *)
set_points(w, pts) ==
    cmd(w, "SENSE:SWEEP:POINTS", IF pts > 2001 THEN 2001 ELSE IF pts < 3 THEN 3 ELSE pts)

(* vna.py:113-119 *)
set_power(w, P) ==
    cmd(w, "SOURCE:POWER", IF P > 6 THEN 6 ELSE IF P < 0 - 17 THEN 0 - 17 ELSE P)

(* vna.py:77-87 *)
set_avg_unclamped(w, avg) ==
    cmd(cmd(cmd(w, "SENSE:AVERAGE:COUNT", avg), "SENSE:AVERAGE:STATE ON", 0),
        "SENSE:AVERAGE:CLEAR", 0)

set_avg(w, avg) ==
    IF avg > 1
    THEN cmd(cmd(cmd(w, "SENSE:AVERAGE:COUNT", avg), "SENSE:AVERAGE:STATE ON", 0),
             "SENSE:AVERAGE:CLEAR", 0)
    ELSE cmd(cmd(cmd(w, "SENSE:AVERAGE:COUNT", 1), "SENSE:AVERAGE:STATE OFF", 0),
             "SENSE:AVERAGE:CLEAR", 0)

(* vna.py:95-97 *)
reset_avg(w) == cmd(w, "SENSE:AVERAGE:CLEAR", 0)

(* vna.py:129: the argument of sleep *)
WaitTimeNoMargin(time, avg) == time * avg

WaitTime(time, avg) == time * (avg + 1)

(* vna.py:125-129 *)
measurecycles(w) ==
    LET w1 == reset_avg(w)
        avg == Answer(w1, "SENSE:AVERAGE:COUNT?")
        w2 == AfterQuery(w1, "SENSE:AVERAGE:COUNT?")
        time == Answer(w2, "SENS:SWEEP:TIME?")
        w3 == AfterQuery(w2, "SENS:SWEEP:TIME?")
    IN Sleep(w3, "cycle", WaitTime(time, avg))

measurecycles_fails(w) ==
    LET w1 == reset_avg(w)
    IN \/ Answer(w1, "SENSE:AVERAGE:COUNT?") = NoNumber
       \/ Answer(AfterQuery(w1, "SENSE:AVERAGE:COUNT?"), "SENS:SWEEP:TIME?") = NoNumber

(* vna.py:211-215, 240-247: Marker.search_min on marker 1 *)
search_min_no_read(w) ==
    cmd(cmd(cmd(cmd(w, "CALC:MARK1:MIN", 0), "CALC:MARK1:SEARCH", 0), "CALC:MARK1:X?", 0),
        "CALC:MARK1:Y?", 0)

search_min_sent(w) == cmd(cmd(w, "CALC:MARK1:MIN", 0), "CALC:MARK1:SEARCH", 0)

search_min_x(w) == Answer(search_min_sent(w), "CALC:MARK1:X?")

search_min_y(w) == Answer(AfterQuery(search_min_sent(w), "CALC:MARK1:X?"), "CALC:MARK1:Y?")

search_min(w) == AfterQuery(AfterQuery(search_min_sent(w), "CALC:MARK1:X?"), "CALC:MARK1:Y?")

---------------------------------------------------------------------------
(* Files.  disk is the sequence of files in the order of their creation.    *)
FileIndex(d, name) == CHOOSE k \in 1..Len(d) : d[k].name = name

HasFile(d, name) == \E k \in 1..Len(d) : d[k].name = name

(* open(name, "w") *)
Created(d, name) ==
    IF HasFile(d, name)
    THEN [d EXCEPT ![FileIndex(d, name)].lines = <<>>]
    ELSE Append(d, [name |-> name, lines |-> <<>>])

(* flush() and close(): the buffered lines reach the file. *)
Flushed(d, f) ==
    IF HasFile(d, f.name)
    THEN [d EXCEPT ![FileIndex(d, f.name)].lines = @ \o f.buffer]
    ELSE d

NoFile == [name |-> <<>>, buffer |-> <<>>]

(* "_{:0>2}".format(inf_cnt) *)
AppendixFixed(infinite, cnt) == IF infinite THEN <<ZERO, ZERO + 1>> ELSE <<>>

Appendix(infinite, cnt) ==
    IF infinite THEN (IF cnt < 10 THEN <<ZERO>> \o Dec(cnt) ELSE Dec(cnt)) ELSE <<>>

---------------------------------------------------------------------------
(* src/stoerkoerpermessung.py: the run.                                     *)

(* Bounds: polls a move answers with "moving", rows per sweep, sweeps.      *)
MaxPolls == 1
MaxRows == 4
MaxCycles == 2

Crash(e) ==
    /\ pc' = "crashed"
    /\ err' = e

(* stoerkoerpermessung.py:30-47 *)
init_motor ==
    /\ pc = "init_motor"
    /\ SetWorld(load_motor_config(World, MotorConfig))
    /\ pc' = "init_vna"
    /\ UNCHANGED <<cfg, rawVars, measureVars, err>>

(* stoerkoerpermessung.py:49-68, vna.py:13-19 *)
init_vna ==
    /\ pc = "init_vna"
    /\ SetWorld(measurecycles(set_avg(set_power(set_points(cmd(World, "@REM", 0), cfg.Points),
                                                cfg.Power), cfg.Average)))
    /\ pc' = "measure"
    /\ UNCHANGED <<cfg, rawVars, measureVars, err>>

(* stoerkoerpermessung.py:88-89 *)
NoSwap(a, b) == <<a, b>>

Swapped(a, b) == IF a > b THEN <<b, a>> ELSE <<a, b>>

(* stoerkoerpermessung.py:94 *)
MethodGiven(c) == (c.StepSize # <<>>) # (c.Steps # <<>>)

(* stoerkoerpermessung.py:97-101 *)
StepOf(c, from, to) ==
    IF c.StepSize # <<>> THEN RInt(c.StepSize[1])
    ELSE RDivInt(RSub(to, from), c.Steps[1])

(* stoerkoerpermessung.py:70-104 *)
measure_plan ==
    /\ pc = "measure"
    /\ start' = RInt(Swapped(cfg.Start, cfg.Stop)[1])
    /\ stop' = RInt(Swapped(cfg.Start, cfg.Stop)[2])
    /\ IF ~MethodGiven(cfg)
       THEN /\ Crash("RuntimeError")
            /\ UNCHANGED <<stepsize, inf_cnt>>
       ELSE IF cfg.StepSize = <<>> /\ cfg.Steps[1] = 0
       THEN /\ Crash("ZeroDivisionError")
            /\ UNCHANGED <<stepsize, inf_cnt>>
       ELSE /\ stepsize' = StepOf(cfg, start', stop')
            /\ inf_cnt' = 1
            /\ pc' = "open"
            /\ UNCHANGED err
    /\ UNCHANGED <<cfg, worldVars, rawVars, pos, f_ref, freq, call, outf, disk, stdout>>

ColumnHeaderShort(checkmode) == <<"# P", "f">>

(* stoerkoerpermessung.py:121-124 *)
ColumnHeader(checkmode) ==
    IF checkmode THEN <<"# P", "f", "f_ref", "freq-t_ref">> ELSE <<"# P", "f">>

(* stoerkoerpermessung.py:105-126 *)
open_file ==
    /\ pc = "open"
    /\ inf_cnt <= MaxCycles
    /\ LET name == <<"out", Appendix(cfg.Infinite, inf_cnt)>>
           w1 == AfterQuery(World, "SENSE:FREQ:CENTER?")
           w2 == AfterQuery(w1, "SENSE:FREQ:SPAN?")
           w3 == AfterQuery(w2, "SENSE:SWEEP:POINTS?")
       IN /\ disk' = Created(disk, name)
          /\ outf' = [name |-> name,
                      buffer |-> <<<<"# Config">>, <<"# Date">>,
                                   <<"# Center", Answer(World, "SENSE:FREQ:CENTER?")>>,
                                   <<"# Span", Answer(w1, "SENSE:FREQ:SPAN?")>>,
                                   <<"# Points", Answer(w2, "SENSE:SWEEP:POINTS?")>>,
                                   <<"# Columns", ColumnHeader(cfg.Checkmode)>>>>]
          /\ SetWorld(w3)
    /\ pos' = start
    /\ stdout' = <<>>
    /\ pc' = "loop"
    /\ UNCHANGED <<cfg, rawVars, start, stop, stepsize, inf_cnt, f_ref, freq, call, err>>

(* stoerkoerpermessung.py:127 *)
InLoop(to, at) == RGt(RSub(to, at), RInt(0 - EPSILON))

(* stoerkoerpermessung.py:130-131, 134 *)
FirstCallSwapped(checkmode, at, ref) == [for |-> "pos", pos |-> at]

FirstCall(checkmode, at, ref) ==
    IF checkmode THEN [for |-> "ref", pos |-> ref] ELSE [for |-> "pos", pos |-> at]

(* stoerkoerpermessung.py:127-131: the loop test; the body starts with the  *)
(* print of the position, the file is closed when the loop is left.         *)
loop_test ==
    /\ pc = "loop"
    /\ InLoop(stop, pos) => Len(stdout) < MaxRows
    /\ trace' = <<>>
    /\ IF InLoop(stop, pos)
       THEN /\ stdout' = Append(stdout, pos)
            /\ call' = FirstCall(cfg.Checkmode, pos, RInt(cfg.Reference))
            /\ pc' = "move_to"
            /\ UNCHANGED <<outf, disk>>
       ELSE /\ disk' = Flushed(disk, outf)
            /\ outf' = NoFile
            /\ pc' = "cycle_end"
            /\ UNCHANGED <<stdout, call>>
    /\ UNCHANGED <<cfg, vnaRx, motRx, inst, motor, net, rawVars, start, stop, stepsize, pos,
                   inf_cnt, f_ref, freq, err>>

(* stoerkoerpermessung.py:156 *)
get_freq_at_move ==
    /\ pc = "move_to"
    /\ \E k \in 0..MaxPolls : SetWorld(move_to(World, call.pos, k))
    /\ pc' = "is_moving"
    /\ UNCHANGED <<cfg, rawVars, measureVars, err>>

(* stoerkoerpermessung.py:157-158: one test of the while loop *)
get_freq_at_no_poll ==
    /\ pc = "is_moving"
    /\ pc' = "settle"
    /\ UNCHANGED <<cfg, worldVars, rawVars, measureVars, err>>

get_freq_at_poll ==
    /\ pc = "is_moving"
    /\ IF get_mv_value(World) = NoNumber
       THEN /\ Crash("ValueError")
            /\ SetWorld(get_mv_done(World))
            /\ disk' = Flushed(disk, outf)
            /\ outf' = NoFile
       ELSE /\ IF get_mv_value(World) # 0
               THEN /\ SetWorld(Sleep(get_mv_done(World), "poll", 0))
                    /\ pc' = "is_moving"
               ELSE /\ SetWorld(get_mv_done(World))
                    /\ pc' = "settle"
            /\ UNCHANGED <<outf, disk, err>>
    /\ UNCHANGED <<cfg, rawVars, start, stop, stepsize, pos, inf_cnt, f_ref, freq, call, stdout>>

(* stoerkoerpermessung.py:159 *)
get_freq_at_settle ==
    /\ pc = "settle"
    /\ SetWorld(Sleep(World, "delay", cfg.Delay))
    /\ pc' = "measurecycles"
    /\ UNCHANGED <<cfg, rawVars, measureVars, err>>

(* stoerkoerpermessung.py:160 *)
get_freq_at_measurecycles ==
    /\ pc = "measurecycles"
    /\ SetWorld(measurecycles(World))
    /\ IF measurecycles_fails(World)
       THEN /\ Crash("ValueError")
            /\ disk' = Flushed(disk, outf)
            /\ outf' = NoFile
       ELSE /\ pc' = "search_min"
            /\ UNCHANGED <<outf, disk, err>>
    /\ UNCHANGED <<cfg, rawVars, start, stop, stepsize, pos, inf_cnt, f_ref, freq, call, stdout>>

(* stoerkoerpermessung.py:161-163, and where measure goes on: 131-136 *)
get_freq_at_search ==
    /\ pc = "search_min"
    /\ SetWorld(search_min(World))
    /\ IF search_min_x(World) = NoNumber \/ search_min_y(World) = NoNumber
       THEN /\ Crash("ValueError")
            /\ disk' = Flushed(disk, outf)
            /\ outf' = NoFile
            /\ UNCHANGED <<f_ref, freq, call, rawPc>>
       ELSE /\ IF call.for = "ref"
               THEN /\ f_ref' = search_min_x(World)
                    /\ UNCHANGED freq
               ELSE /\ freq' = search_min_x(World)
                    /\ UNCHANGED f_ref
            /\ IF cfg.RcMode
               THEN /\ pc' = "write_raw"
                    /\ rawPc' = "call"
                    /\ UNCHANGED call
               ELSE /\ pc' = IF call.for = "ref" THEN "move_to" ELSE "record"
                    /\ call' = [for |-> "pos", pos |-> pos]
                    /\ UNCHANGED rawPc
            /\ UNCHANGED <<outf, disk, err>>
    /\ UNCHANGED <<cfg, resp, rawLocals, center, start, stop, stepsize, pos, inf_cnt, stdout>>

(* vna.py:189-194: read_raw has ended; open(file, "w"), then the call of    *)
(* strftime, a name vna.py does not import (vna.py:7): NameError.  An       *)
(* exception leaves the with block of measure, which closes the output.     *)
write_raw ==
    /\ pc = "write_raw"
    /\ rawPc \in {"returned", "raised"}
    /\ IF rawPc = "raised"
       THEN /\ Crash("ValueError")
            /\ disk' = Flushed(disk, outf)
       ELSE /\ Crash("NameError")
            /\ disk' = Flushed(Created(disk, <<"rc", Trunc(pos), call.for,
                                               Appendix(cfg.Infinite, inf_cnt)>>), outf)
    /\ outf' = NoFile
    /\ rawPc' = "idle"
    /\ UNCHANGED <<cfg, worldVars, resp, rawLocals, center, start, stop, stepsize, pos,
                   inf_cnt, f_ref, freq, call, stdout>>

(* stoerkoerpermessung.py:138-142: the row; the position is kept as it is,  *)
(* its rendering with three decimals is not modelled.                       *)
RowOf(checkmode, at, f, ref) ==
    IF checkmode THEN <<"row", at, f, ref, f - ref>> ELSE <<"row", at, f>>

(* stoerkoerpermessung.py:138-145 *)
record_no_flush ==
    /\ pc = "record"
    /\ outf' = [outf EXCEPT !.buffer = Append(@, RowOf(cfg.Checkmode, pos, freq, f_ref))]
    /\ pos' = RAdd(pos, stepsize)
    /\ pc' = "loop"
    /\ UNCHANGED <<cfg, worldVars, rawVars, start, stop, stepsize, inf_cnt, f_ref, freq,
                   call, disk, stdout, err>>

record ==
    /\ pc = "record"
    /\ disk' = Flushed(disk, [outf EXCEPT !.buffer = Append(@, RowOf(cfg.Checkmode, pos, freq, f_ref))])
    /\ outf' = [outf EXCEPT !.buffer = <<>>]
    /\ pos' = RAdd(pos, stepsize)
    /\ trace' = Append(trace, Ev("file", "flush", "row", 0))
    /\ pc' = "loop"
    /\ UNCHANGED <<cfg, vnaRx, motRx, inst, motor, net, rawVars, start, stop, stepsize,
                   inf_cnt, f_ref, freq, call, stdout, err>>

(* stoerkoerpermessung.py:147-150 *)
cycle_end_polled ==
    /\ pc = "cycle_end"
    /\ inf_cnt' = inf_cnt + 1
    /\ \E k \in 0..MaxPolls : SetWorld(get_mv_done(move_to(World, start, k)))
    /\ pc' = IF cfg.Infinite THEN "open" ELSE "done"
    /\ UNCHANGED <<cfg, rawVars, start, stop, stepsize, pos, f_ref, freq, call, outf, disk,
                   stdout, err>>

cycle_end ==
    /\ pc = "cycle_end"
    /\ inf_cnt' = inf_cnt + 1
    /\ \E k \in 0..MaxPolls : SetWorld(move_to(World, start, k))
    /\ pc' = IF cfg.Infinite THEN "open" ELSE "done"
    /\ UNCHANGED <<cfg, rawVars, start, stop, stepsize, pos, f_ref, freq, call, outf, disk,
                   stdout, err>>

(* The configurations and instruments explored. *)
PositionValues == {0, 1, 4}
StepSizeValues == {0, 3}
StepsValues == {0, 1, 2}
AverageValues == {0, 3}
SweepTimeValues == {1, 2}

Option(S) == {<<>>} \cup {<<v>> : v \in S}

Configs ==
    [Answers : {"run"}, SweepTime : SweepTimeValues, Start : PositionValues,
     Stop : PositionValues, StepSize : Option(StepSizeValues), Steps : Option(StepsValues),
     Infinite : BOOLEAN, Checkmode : BOOLEAN, RcMode : BOOLEAN, Reference : {3},
     Average : AverageValues, Scaling : {2}, Delay : {1}, Points : {201}, Power : {0}]

Init ==
    /\ pc = "init_motor"
    /\ cfg \in Configs
    /\ InitCommon

Next ==
    \/ init_motor \/ init_vna \/ measure_plan \/ open_file \/ loop_test
    \/ get_freq_at_move \/ get_freq_at_poll \/ get_freq_at_settle
    \/ get_freq_at_measurecycles \/ get_freq_at_search
    \/ read_raw \/ write_raw \/ record \/ cycle_end

Spec == Init /\ [][Next]_vars

---------------------------------------------------------------------------
(* Claims about VNA.read_raw, checked under SpecRaw.                        *)

RawEnded == rawPc \in {"returned", "raised", "blocked"}

(* C1: for every well-formed block whose dataLength is a positive multiple  *)
(* of 16, read_raw returns exactly dataLength/16 pairs, in payload order,   *)
(* each the two consecutive little-endian doubles of the payload: what it   *)
(* returns is the sample sequence the instrument encoded.                   *)
C1_RoundTrip ==
    (resp.kind = "block" /\ resp.declared > 0 /\ resp.declared % PAIR_BYTES = 0) =>
        /\ rawPc \notin {"raised", "blocked"}
        /\ rawPc = "pairs" => ret = Take(resp.samples, Len(ret))
        /\ rawPc = "returned" =>
            /\ rawResult = "list"
            /\ Len(ret) = resp.declared \div PAIR_BYTES
            /\ ret = resp.samples

C1_Witness ==
    /\ rawPc = "returned"
    /\ resp.kind = "block"
    /\ rawResult = "list"
    /\ Len(ret) = 2
    /\ ret[1] # ret[2]
    /\ ret[1][1] # ret[1][2]

(* C2: a response that does not start with '#' yields NoData (None) and     *)
(* leaves no byte of that response unread, so the next text query reads its *)
(* own reply.                                                               *)
C2_NoDataLeavesChannelAligned ==
    /\ (resp.kind = "text" /\ RawEnded) => (rawPc = "returned" /\ rawResult = "None")
    /\ (rawPc = "returned" /\ rawResult = "None" /\ pc = "in_read_raw") => vnaRx = <<>>
    /\ (rawResult = "None" /\ pc = "client_done") => center = CENTER_VALUE

(* C3: a block whose declared dataLength is not a multiple of 16 fails      *)
(* (MalformedBlock): read_raw never returns a sample list for it.           *)
C3_OddLengthFails ==
    (resp.kind = "odd" /\ RawEnded) => (rawPc = "raised" /\ rawResult # "list")

(* C4: when the stream ends before dataLength payload bytes were delivered, *)
(* read_raw fails (TruncatedBlock): it neither returns a list nor blocks.   *)
C4_TruncatedFails ==
    (resp.kind = "short" /\ resp.delivered < resp.declared /\ RawEnded) =>
        (rawPc = "raised" /\ rawResult # "list")

(* C5: after read_raw returns a sample list, every byte of the block has    *)
(* been consumed and nothing else: the next readline returns the reply to   *)
(* the next text query.                                                     *)
C5_ListLeavesChannelAligned ==
    /\ (rawPc = "returned" /\ rawResult = "list" /\ pc = "in_read_raw") => vnaRx = <<>>
    /\ (rawResult = "list" /\ pc = "client_done") => (center = CENTER_VALUE /\ vnaRx = <<>>)

---------------------------------------------------------------------------
(* Claims about the measurement run, checked under Spec.                    *)

Planned == pc \notin {"init_motor", "init_vna", "measure"}

RTimes(a, k) == Rat(a[1] * k, a[2])

(* C6: for start <= stop and a step count n >= 1 the step size is           *)
(* (stop - start)/n and one sweep visits exactly the n+1 positions          *)
(* start + k*stepSize, k = 0..n, in increasing order: stop exactly once and *)
(* nothing beyond it.                                                       *)
C6_Expected ==
    [k \in 1..(cfg.Steps[1] + 1) |->
        RAdd(RInt(cfg.Start),
             RTimes(RDivInt(RSub(RInt(cfg.Stop), RInt(cfg.Start)), cfg.Steps[1]), k - 1))]

C6_SweepVisits ==
    (/\ cfg.Start <= cfg.Stop
     /\ cfg.StepSize = <<>>
     /\ cfg.Steps # <<>>
     /\ cfg.Steps[1] >= 1
     /\ Planned) =>
        /\ stepsize = RDivInt(RSub(RInt(cfg.Stop), RInt(cfg.Start)), cfg.Steps[1])
        /\ IsPrefix(stdout, C6_Expected)
        /\ pc \in {"cycle_end", "done"} => stdout = C6_Expected

(* C7: with checkmode, for every target position the reference position is  *)
(* moved to and sampled before the target position is moved to and sampled, *)
(* and the row holds position, targetFreq, refFreq, targetFreq - refFreq.   *)
IsKeyEvent(e) ==
    \/ e[1] = "motor" /\ e[3] = "MA"
    \/ e[1] = "vna" /\ e[3] = "CALC:MARK1:X?"

RowWritten ==
    /\ pc = "loop"
    /\ trace # <<>>
    /\ trace[Len(trace)] = Ev("file", "flush", "row", 0)

LastRow == disk[Len(disk)].lines[Len(disk[Len(disk)].lines)]

C7_ReferenceFirst ==
    (cfg.Checkmode /\ RowWritten) =>
        LET at == stdout[Len(stdout)]
            fTarget == BASE_FREQ + MicroSteps(at)
            fRef == BASE_FREQ + MicroSteps(RInt(cfg.Reference))
        IN /\ SelectSeq(trace, IsKeyEvent) =
                <<Ev("motor", "write", "MA", MicroSteps(RInt(cfg.Reference))),
                  Ev("vna", "write", "CALC:MARK1:X?", 0),
                  Ev("motor", "write", "MA", MicroSteps(at)),
                  Ev("vna", "write", "CALC:MARK1:X?", 0)>>
           /\ LastRow = <<"row", at, fTarget, fRef, fTarget - fRef>>

C7_Witness ==
    /\ cfg.Checkmode
    /\ RowWritten
    /\ Len(stdout) = 2
    /\ freq # f_ref
    /\ LastRow[3] = freq
    /\ LastRow[4] = f_ref

(* C8: StepSize and Steps both given, or neither, raises the configuration  *)
(* error, and no command has been sent to the motor or the VNA before it.   *)
C8_ConfigErrorBeforeHardware ==
    /\ (~MethodGiven(cfg) /\ Planned) => err = "RuntimeError"
    /\ err = "RuntimeError" => \A k \in 1..Len(trace) : trace[k][2] # "write"

(* C9: measurecycles first sends the average-clear command and only then    *)
(* blocks, for exactly sweepDuration * (averageCount + 1); the instrument   *)
(* is not polled during the wait.                                           *)
C9_ResetThenWait ==
    pc \in {"measure", "search_min"} =>
        /\ Len(trace) >= 6
        /\ SubSeq(trace, Len(trace) - 5, Len(trace)) =
              <<Ev("vna", "write", "SENSE:AVERAGE:CLEAR", 0),
                Ev("vna", "write", "SENSE:AVERAGE:COUNT?", 0),
                Ev("vna", "read", "line", 0),
                Ev("vna", "write", "SENS:SWEEP:TIME?", 0),
                Ev("vna", "read", "line", 0),
                Ev("time", "sleep", "cycle", cfg.SweepTime * (inst.avg + 1))>>

C9_Witness ==
    /\ pc = "search_min"
    /\ cfg.SweepTime = 2
    /\ inst.avg = 3
    /\ trace[Len(trace)] = Ev("time", "sleep", "cycle", 8)

(* C10: on each serial channel writes and reads strictly alternate: every   *)
(* command written is followed by a read of its reply before the next       *)
(* command is written, and each read returns the reply to the most recently *)
(* issued command.                                                          *)
C10_StrictAlternation ==
    /\ ~net.motor.overlap
    /\ ~net.vna.overlap
    /\ ~net.motor.stale
    /\ ~net.vna.stale

(* C10, restricted to what has a reply: on the motor channel every command  *)
(* is followed by a read before the next command; on the VNA channel every  *)
(* query is (setting commands are written without a read); each read        *)
(* returns bytes of the reply to the most recent command, and no query is   *)
(* left unread when the run ends.                                           *)
C10_QueriesAnswered ==
    /\ ~net.motor.overlap
    /\ ~net.vna.lost
    /\ ~net.motor.stale
    /\ ~net.vna.stale
    /\ pc \in {"done", "crashed"} => (net.motor.open = "none" /\ net.vna.open # "query")

C10_Witness ==
    /\ pc = "done"
    /\ net.vna.overlap
    /\ net.vna.open = "none"
    /\ net.motor.open = "none"
    /\ Len(disk[1].lines) > 7

---------------------------------------------------------------------------
(* The rows of the output file the run is writing.                          *)
IsRow(l) == l[1] = "row"

FileLines == disk[FileIndex(disk, outf.name)].lines

RowPositions == [k \in 1..Len(SelectSeq(FileLines, IsRow)) |-> SelectSeq(FileLines, IsRow)[k][2]]

(* C11: in one sweep there is exactly one row per position visited, in      *)
(* visiting order, with raw-curve capture or without; with capture the raw  *)
(* data of a position is written and the sweep goes on to the next          *)
(* position: a capture never ends the run.                                  *)
C11_OneRowPerPosition ==
    /\ pc = "loop" => RowPositions = stdout
    /\ (cfg.RcMode /\ stdout # <<>>) => pc # "crashed"

InSweep ==
    pc \in {"loop", "move_to", "is_moving", "settle", "measurecycles", "search_min",
            "write_raw", "record"}

(* C12: in infinite mode, after each completed sweep the motor is commanded *)
(* back to start and the next sweep writes a new file whose name carries    *)
(* the cycle counter, two digits, one more per cycle, so the files of the   *)
(* cycles are all different; the run never finishes by itself.              *)
C12_InfiniteCycles ==
    cfg.Infinite =>
        /\ pc # "done"
        /\ InSweep =>
            /\ Len(disk) = inf_cnt
            /\ outf.name = <<"out", <<ZERO, ZERO + inf_cnt>>>>
            /\ \A k \in 1..Len(disk) : disk[k].name = <<"out", <<ZERO, ZERO + k>>>>
        /\ (pc = "open" /\ inf_cnt > 1) =>
            trace = <<Ev("motor", "write", "MA", MicroSteps(start)),
                      Ev("motor", "read", "line", 0)>>

C12_Witness ==
    /\ cfg.Infinite
    /\ pc = "record"
    /\ inf_cnt = 2
    /\ Len(disk) = 2
    /\ disk[1].name # disk[2].name
    /\ Len(SelectSeq(disk[1].lines, IsRow)) >= 2
    /\ motor.target # MicroSteps(start)

(* The rows on disk in the output file of the current cycle. *)
CurrentOut == <<"out", Appendix(cfg.Infinite, inf_cnt)>>

RowsOnDisk == SelectSeq(disk[FileIndex(disk, CurrentOut)].lines, IsRow)

Completed == Take(stdout, Len(stdout) - 1)

(* C13: each row is appended and flushed before the motor is commanded to   *)
(* the next position: while position p is being worked on, and when the run *)
(* fails at p, the file on disk holds the rows of all positions completed   *)
(* before p, in order.                                                      *)
C13_RowsFlushedBeforeMove ==
    ((InSweep /\ pc # "loop") \/ (pc = "crashed" /\ stdout # <<>>)) =>
        /\ HasFile(disk, CurrentOut)
        /\ [k \in 1..Len(RowsOnDisk) |-> RowsOnDisk[k][2]] = Completed

C13_Witness ==
    /\ pc = "is_moving"
    /\ call.for = "pos"
    /\ Len(stdout) = 3
    /\ Len(RowsOnDisk) = 2
    /\ RowsOnDisk[2][2] = stdout[2]
    /\ outf.buffer = <<>>
    /\ trace[Len(trace) - 1][3] = "MA"

(* C14: every sweep plan with which the measurement loop is entered has     *)
(* stepSize > 0: no configuration that planning accepts leads to a loop run *)
(* with a zero or negative step.                                            *)
C14_StepPositive ==
    (Planned /\ pc # "crashed") => RGt(stepsize, RInt(0))

Lower == IF cfg.Start <= cfg.Stop THEN cfg.Start ELSE cfg.Stop

Upper == IF cfg.Start <= cfg.Stop THEN cfg.Stop ELSE cfg.Start

(* C15: inverted bounds (start > stop) are swapped before the step size is  *)
(* derived and before any position is visited: the plan runs from the       *)
(* smaller to the larger bound, a step derived from a step count is         *)
(* (larger - smaller)/n, and the first position visited is the smaller one. *)
C15_BoundsSwapped ==
    Planned =>
        /\ start = RInt(Lower)
        /\ stop = RInt(Upper)
        /\ (pc # "crashed" /\ cfg.StepSize = <<>>) =>
              stepsize = RDivInt(RInt(Upper - Lower), cfg.Steps[1])
        /\ stdout # <<>> => stdout[1] = RInt(Lower)
        /\ \A k \in 1..Len(stdout) : ~RGt(RInt(Lower), stdout[k])

C15_Witness ==
    /\ cfg.Start = 4
    /\ cfg.Stop = 0
    /\ cfg.Steps = <<2>>
    /\ start = RInt(0)
    /\ stop = RInt(4)
    /\ stepsize = RInt(2)
    /\ stdout = <<RInt(0), RInt(2), RInt(4)>>
    /\ pc = "done"

IsColumns(l) == l[1] = "# Columns"

(* C16: every recorded row holds a reference frequency and a delta if and   *)
(* only if checkmode is enabled, and the column header at the top of the    *)
(* file has as many columns as the rows that follow it.                     *)
C16_RowShape ==
    \A k \in 1..Len(disk) : \A j \in 1..Len(disk[k].lines) :
        LET l == disk[k].lines[j]
        IN /\ IsRow(l) =>
                /\ Len(l) - 1 = (IF cfg.Checkmode THEN 4 ELSE 2)
                /\ Len(l) - 1 = Len(SelectSeq(disk[k].lines, IsColumns)[1][2])
                /\ cfg.Checkmode => l[5] = l[3] - l[4]
           /\ IsColumns(l) => (j = 6 /\ Len(l[2]) = (IF cfg.Checkmode THEN 4 ELSE 2))

C16_Witness ==
    /\ pc = "done"
    /\ cfg.Checkmode
    /\ Len(disk) = 1
    /\ Len(SelectSeq(disk[1].lines, IsRow)) = 2
    /\ Len(disk[1].lines[7]) = 5
    /\ disk[1].lines[7][4] # 0
    /\ disk[1].lines[6] = <<"# Columns", <<"# P", "f", "f_ref", "freq-t_ref">>>>

---------------------------------------------------------------------------
(* C17: a block whose length-of-length byte or length field is not made of  *)
(* decimal digits (a length-of-length of 0 included) ends read_raw with an  *)
(* error, and after that error no byte of the broken block is left on the   *)
(* channel for the next text query to read as its reply.                    *)
C17_BadHeaderFailsClean ==
    /\ (resp.kind = "badheader" /\ RawEnded) => (rawPc = "raised" /\ rawResult = "ValueError")
    /\ (resp.kind = "badheader" /\ rawPc = "raised") => vnaRx = <<>>

---------------------------------------------------------------------------
(* The steps of get_freq_at as they show in the events since the loop test. *)
StepOfEvent(e) ==
    CASE e[1] = "motor" /\ e[2] = "write" /\ e[3] = "MA" -> "move"
      [] e[1] = "motor" /\ e[2] = "write" /\ e[3] = "PR MV" -> "ask"
      [] e[1] = "time" /\ e[3] = "poll" -> "pause"
      [] e[1] = "time" /\ e[3] = "delay" -> "delay"
      [] e[1] = "vna" /\ e[2] = "write" /\ e[3] = "SENSE:AVERAGE:CLEAR" -> "clear"
      [] e[1] = "time" /\ e[3] = "cycle" -> "cycle"
      [] e[1] = "vna" /\ e[2] = "write" /\ e[3] = "CALC:MARK1:MIN" -> "min"
      [] e[1] = "vna" /\ e[2] = "write" /\ e[3] = "CALC:MARK1:SEARCH" -> "search"
      [] OTHER -> "other"

(* Where a sequence of steps stands in the order                            *)
(*   move, (ask, pause)*, ask, delay, clear, cycle, min, search             *)
(* repeated; "bad" when a step comes out of that order.                     *)
StepAfter(at, step) ==
    CASE step = "other" -> at
      [] at \in {"idle", "search"} /\ step = "move" -> "move"
      [] at \in {"move", "pause"} /\ step = "ask" -> "ask"
      [] at = "ask" /\ step \in {"pause", "delay"} -> step
      [] at = "delay" /\ step = "clear" -> "clear"
      [] at = "clear" /\ step = "cycle" -> "cycle"
      [] at = "cycle" /\ step = "min" -> "min"
      [] at = "min" /\ step = "search" -> "search"
      [] OTHER -> "bad"

RECURSIVE Progress(_, _)
Progress(events, at) ==
    IF events = <<>> THEN at
    ELSE Progress(Tail(events), StepAfter(at, StepOfEvent(Head(events))))

(* C18: for every sampled position the order is: move command, polls of     *)
(* is_moving until it answers false, the settling delay, the averaging      *)
(* cycle (reset and wait), and only then the minimum search on marker 1;    *)
(* the search is issued with the motor at standstill on the target last     *)
(* commanded for that position, and the frequency of a row is the one the   *)
(* instrument shows there.                                                  *)
C18_SamplingOrder ==
    /\ ((InSweep /\ pc # "loop") \/ RowWritten) => Progress(trace, "idle") # "bad"
    /\ pc = "search_min" =>
        /\ Progress(trace, "idle") = "cycle"
        /\ motor.moving = 0
        /\ motor.target = MicroSteps(call.pos)
        /\ \E k \in 1..Len(trace) : trace[k] = Ev("time", "sleep", "delay", cfg.Delay)
    /\ pc \in {"record", "write_raw"} => Progress(trace, "idle") = "search"
    /\ pc = "record" => freq = BASE_FREQ + MicroSteps(pos)
    /\ RowWritten => LastRow[3] = BASE_FREQ + MicroSteps(LastRow[2])

C18_Witness ==
    /\ pc = "record"
    /\ Progress(trace, "idle") = "search"
    /\ \E k \in 1..Len(trace) : trace[k] = Ev("time", "sleep", "poll", 0)
    /\ MicroSteps(pos) # 0
    /\ freq = BASE_FREQ + MicroSteps(pos)
    /\ freq # TRANSIT_FREQ

---------------------------------------------------------------------------
(* C19: in non-infinite mode, with a motor that comes to rest and           *)
(* instruments that answer, measure() terminates: every turn of the loop    *)
(* advances the position by a step that brings it nearer to the exit        *)
(* stop - pos <= -1E-6, so that the loop is left after finitely many rows.  *)
(* Stated on one turn of the loop: the position after the row lies strictly *)
(* beyond the position before it.                                           *)
C19_LoopAdvances ==
    [][(~cfg.Infinite /\ pc = "record" /\ pc' = "loop") => RGt(pos', pos)]_vars

---------------------------------------------------------------------------
LastEvent == trace[Len(trace)]

(* C20: the averaging wait for every sampled position uses the configured   *)
(* average count: for every configured Average a the wait is                *)
(* currentSweepTime * (a + 1).                                              *)
C20_WaitUsesConfigured ==
    pc = "search_min" =>
        LastEvent = Ev("time", "sleep", "cycle", cfg.SweepTime * (cfg.Average + 1))

(* C20, with the count the instrument holds: the wait is                    *)
(* currentSweepTime * (c + 1), where c is the count set_avg has sent, a for *)
(* a > 1 and 1 for a <= 1.                                                  *)
EffectiveAverage == IF cfg.Average > 1 THEN cfg.Average ELSE 1

C20_WaitUsesReportedCount ==
    pc \in {"measure", "search_min"} =>
        /\ inst.avg = EffectiveAverage
        /\ LastEvent = Ev("time", "sleep", "cycle", cfg.SweepTime * (EffectiveAverage + 1))

C20_Witness ==
    /\ pc = "search_min"
    /\ cfg.Average = 0
    /\ cfg.SweepTime = 2
    /\ LastEvent = Ev("time", "sleep", "cycle", 4)

---------------------------------------------------------------------------
(* C21: in non-infinite mode, once the single sweep is over the motor is    *)
(* commanded back to start exactly once, as the last hardware command of    *)
(* the run, and measure() returns without polling is_moving for that move:  *)
(* the only events after the sweep are the MA command and the read of its   *)
(* reply line, and the motor may still be moving.                           *)
C21_FinalReturnUnpolled ==
    pc = "done" =>
        /\ ~cfg.Infinite
        /\ inf_cnt = 2
        /\ outf = NoFile
        /\ trace = <<Ev("motor", "write", "MA", MicroSteps(start)),
                     Ev("motor", "read", "line", 0)>>
        /\ motor.target = MicroSteps(start)
        /\ net.motor.open = "none"

C21_Witness ==
    /\ pc = "done"
    /\ motor.moving > 0
    /\ Len(stdout) = 3
    /\ stdout[3] # start
    /\ MicroSteps(stdout[3]) # MicroSteps(start)
    /\ motor.target = MicroSteps(start)
    /\ LastEvent = Ev("motor", "read", "line", 0)

===========================================================================
